---- MODULE Spec2Model ----
(***************************************************************************)
(* Model of OneBox/Scripts/generate_app_store_screenshots.py: the          *)
(* sequential screenshot driver (main, ScreenshotGenerator) together with  *)
(* the output directory  <project>/Screenshots/AppStore  it maintains.     *)
(*                                                                         *)
(* Strings are sequences of one-character strings, so that str.replace,    *)
(* str.lower, the `in` substring test and the "*.png" glob are computed    *)
(* the way the script computes them.                                       *)
(*                                                                         *)
(* External tools (xcrun simctl, xcodebuild, the UI test run) are inputs:  *)
(* each call's outcome is drawn from the outcomes the script              *)
(* distinguishes.  File-system calls outside the per-device try block      *)
(* (clean, manifest) are taken to succeed.                                 *)
(***************************************************************************)
EXTENDS Integers, Sequences, FiniteSets, TLC

(* ------------------------------ bounds -------------------------------- *)
\* number of image files the UI test runs of one run write in total
MaxNewFiles == 1
\* number of files directly in the output directory before the first run
MaxInitFiles == 1

(* ------------------------------ strings ------------------------------- *)
UpperChars == <<"A", "B", "C", "D", "E", "F", "G", "H", "I", "J", "K", "L", "M", "N", "O", "P", "Q", "R", "S", "T", "U", "V", "W", "X", "Y", "Z">>
LowerChars == <<"a", "b", "c", "d", "e", "f", "g", "h", "i", "j", "k", "l", "m", "n", "o", "p", "q", "r", "s", "t", "u", "v", "w", "x", "y", "z">>

\* str.lower() on one character
LowerChar(c) ==
  IF \E i \in 1..Len(UpperChars) : UpperChars[i] = c
  THEN LowerChars[CHOOSE i \in 1..Len(UpperChars) : UpperChars[i] = c]
  ELSE c

\* str.lower()
Lower(s) == [i \in 1..Len(s) |-> LowerChar(s[i])]

\* str.replace(a, b) for a one-character a and a one-character b
ReplaceChar(s, a, b) == [i \in 1..Len(s) |-> IF s[i] = a THEN b ELSE s[i]]

\* str.replace(a, "") for a one-character a
RemoveChar(s, a) == SelectSeq(s, LAMBDA c : c # a)

\* Python's  sub in s
Contains(sub, s) ==
  \E i \in 0..(Len(s) - Len(sub)) : SubSeq(s, i + 1, i + Len(sub)) = sub

\* s ends with suf
EndsWith(s, suf) ==
  /\ Len(s) >= Len(suf)
  /\ SubSeq(s, Len(s) - Len(suf) + 1, Len(s)) = suf

(* --------------------------- configuration ---------------------------- *)
KeyProMax == "iPhone 15 Pro Max"
KeyPhone == "iPhone 15"
KeyPad == "iPad Pro 12.9-inch"
SimPad == "iPad Pro (12.9-inch) (6th generation)"

\* the keys of SCREENSHOT_DEVICES in dict (insertion) order
DeviceKeys == <<KeyProMax, KeyPhone, KeyPad>>

\* SCREENSHOT_DEVICES: the fields the script reads
SCREENSHOT_DEVICES ==
  [k \in {KeyProMax, KeyPhone, KeyPad} |->
     [simulator |-> IF k = KeyPad THEN SimPad ELSE k, required |-> TRUE]]

\* a device name that is not configured
UnknownDevice == "Pixel 8"

\* args.device when --device is not given (no string a user passes)
None == "<None>"

\* Python truthiness of args.device
Truthy(x) == x # None /\ x # ""

(* ----------------------------- file names ----------------------------- *)
\* the subdirectories organize_screenshots computes for the three profiles
DirProMax == "iPhone_15_Pro_Max"
DirPhone == "iPhone_15"
DirPad == "iPad_Pro_12.9-inch_6th_generation"

\* an unrelated subdirectory of the output directory
ArchiveDir == "Archive"

\* files in the output directory: one no device matches, one named for the
\* first profile in lower case, one that is no image
FileHome == "home_screen.png"
FileProMax == "iphone_15_pro_max_home.png"
FileNotes == "iPhone_15_notes.txt"

\* the characters of the strings the script takes apart
Chars ==
     (KeyProMax :> <<"i", "P", "h", "o", "n", "e", " ", "1", "5", " ", "P", "r", "o", " ", "M", "a", "x">>)
  @@ (KeyPhone :> <<"i", "P", "h", "o", "n", "e", " ", "1", "5">>)
  @@ (KeyPad :> <<"i", "P", "a", "d", " ", "P", "r", "o", " ", "1", "2", ".", "9", "-", "i", "n", "c", "h">>)
  @@ (SimPad :> <<"i", "P", "a", "d", " ", "P", "r", "o", " ", "(", "1", "2", ".", "9", "-", "i", "n", "c", "h", ")", " ", "(", "6", "t", "h", " ", "g", "e", "n", "e", "r", "a", "t", "i", "o", "n", ")">>)
  @@ (UnknownDevice :> <<"P", "i", "x", "e", "l", " ", "8">>)
  @@ (DirProMax :> <<"i", "P", "h", "o", "n", "e", "_", "1", "5", "_", "P", "r", "o", "_", "M", "a", "x">>)
  @@ (DirPhone :> <<"i", "P", "h", "o", "n", "e", "_", "1", "5">>)
  @@ (DirPad :> <<"i", "P", "a", "d", "_", "P", "r", "o", "_", "1", "2", ".", "9", "-", "i", "n", "c", "h", "_", "6", "t", "h", "_", "g", "e", "n", "e", "r", "a", "t", "i", "o", "n">>)
  @@ (FileHome :> <<"h", "o", "m", "e", "_", "s", "c", "r", "e", "e", "n", ".", "p", "n", "g">>)
  @@ (FileProMax :> <<"i", "p", "h", "o", "n", "e", "_", "1", "5", "_", "p", "r", "o", "_", "m", "a", "x", "_", "h", "o", "m", "e", ".", "p", "n", "g">>)
  @@ (FileNotes :> <<"i", "P", "h", "o", "n", "e", "_", "1", "5", "_", "n", "o", "t", "e", "s", ".", "t", "x", "t">>)

\* the string with these characters
Str(chars) == CHOOSE s \in DOMAIN Chars : Chars[s] = chars

\* the file names of the model, in directory order
FileOrder == <<FileHome, FileProMax, FileNotes>>
FileNames == {FileOrder[i] : i \in 1..Len(FileOrder)}

\* Path.glob("*.png") selects this name
DotPng == <<".", "p", "n", "g">>
IsPng == [n \in FileNames |-> EndsWith(Chars[n], DotPng)]
PngIds == {n \in FileNames : IsPng[n]}

\* organize_screenshots: the device's folder-safe name
FolderSafe(simulator) ==
  Str(RemoveChar(RemoveChar(ReplaceChar(Chars[simulator], " ", "_"), "("), ")"))

\* the subdirectory of a configured device
DeviceDir == [k \in DOMAIN SCREENSHOT_DEVICES |-> FolderSafe(SCREENSHOT_DEVICES[k].simulator)]

\* organize_screenshots: device_name.lower() in screenshot_file.name.lower()
NameMatches(device_name, file_name) ==
  Contains(Lower(Chars[device_name]), Lower(Chars[file_name]))

\* the match of every configured device against every file name
Matches == [k \in DOMAIN SCREENSHOT_DEVICES |-> [n \in FileNames |-> NameMatches(DeviceDir[k], n)]]

\* the subdirectories of the model: one per device, and an unrelated one
Folders == {DeviceDir[k] : k \in DOMAIN SCREENSHOT_DEVICES} \cup {ArchiveDir}

\* a directory's files: name index -> "none" (no such file), or when the file
\* was written: "old" (before the current run started) or "new" (during it)
EmptyDir == [n \in FileNames |-> "none"]
FilesIn(dir) == {n \in FileNames : dir[n] # "none"}
PngsIn(dir) == {n \in FileNames : dir[n] # "none" /\ IsPng[n]}

\* a time, seen from the start of the next run
Aged(time) == IF time = "none" THEN "none" ELSE "old"
AgedDir(dir) == [n \in FileNames |-> Aged(dir[n])]

(* ------------------------ the simulator list --------------------------- *)
\* entries of  xcrun simctl list devices -j
SimEntry(name, available, udid) == [name |-> name, isAvailable |-> available, udid |-> udid]

\* the lists the tool answers with: one where the first profile's simulator
\* is unavailable, the second's is missing and the third's is installed under
\* its simulator identifier; one with the stock simulators of the three
\* profiles and a simulator named like the third profile's key
SimctlLists ==
  { {SimEntry(KeyProMax, FALSE, 1), SimEntry(SimPad, TRUE, 3)},
    {SimEntry(KeyProMax, TRUE, 1), SimEntry(KeyPhone, TRUE, 2), SimEntry(SimPad, TRUE, 3),
     SimEntry(KeyPad, TRUE, 4)} }

\* boot_simulator: the udid of the available entry with this name, 0 for None
FindDevice(devices, device_name) ==
  IF \E e \in devices : e.name = device_name /\ e.isAvailable
  THEN (CHOOSE e \in devices : e.name = device_name /\ e.isAvailable).udid
  ELSE 0

\* generate_all_screenshots: the name handed to boot_simulator for a profile
BootLookupName(device_name, device_config) == device_name

(* ------------------------------- state -------------------------------- *)
VARIABLES
  top,                \* files directly in the output directory
  subdirs,            \* the subdirectories of the output directory
  sub,                \* the files of each subdirectory
  manifest,           \* the content of manifest.json (generated_at "none": no file)
  pc,                 \* position of the process
  clean,              \* args.clean
  specific_device,    \* args.device
  project_found,      \* main: OneBox.xcodeproj exists under the project path
  devices_to_process, \* the keys of devices_to_process, in order
  idx,                \* position of the for loop in devices_to_process
  device_uuid,        \* the result of boot_simulator (0: False)
  success_count,
  total_devices,
  success,            \* the value generate_all_screenshots returned
  exit_code,          \* the process exit status (-1: none yet)
  produced,           \* image files written by the test runs of this run
  last,               \* the step executed last, and its outcome
  attempts,           \* the devices Boot was attempted for in this run, in order
  completed,          \* the devices that reached "Completed" in this run
  manifest_writes,    \* number of times this run wrote the manifest
  top0, subdirs0, sub0, manifest0   \* the output directory when the run started

vars == <<top, subdirs, sub, manifest, pc, clean, specific_device, project_found,
          devices_to_process, idx, device_uuid, success_count, total_devices,
          success, exit_code, produced, last, attempts, completed,
          manifest_writes, top0, subdirs0, sub0, manifest0>>

fsVars == <<top, subdirs, sub, manifest>>
argVars == <<clean, specific_device, project_found>>
snapVars == <<top0, subdirs0, sub0, manifest0>>

NoManifest == [generated_at |-> "none", devices |-> [f \in {} |-> 0]]

\* no device: the step belongs to the run as a whole
NoDevice == "-"

Step(step, dev, res) == [step |-> step, dev |-> dev, res |-> res, name |-> NoDevice, list |-> {}]

\* the sets of at most k elements of S
SubsetsUpTo(S, k) == {T \in SUBSET S : Cardinality(T) <= k}

\* an unrelated subdirectory present before the first run holds one file of
\* every name that no device matches or that is no image
ArchiveFiles ==
  [n \in FileNames |->
     IF IsPng[n] /\ \E k \in DOMAIN SCREENSHOT_DEVICES : Matches[k][n] THEN "none" ELSE "old"]

Init ==
  /\ \E T \in SubsetsUpTo(FileNames, MaxInitFiles) :
       top = [n \in FileNames |-> IF n \in T THEN "old" ELSE "none"]
  /\ subdirs = {ArchiveDir}
  /\ sub = [f \in Folders |-> IF f = ArchiveDir THEN ArchiveFiles ELSE EmptyDir]
  /\ manifest = NoManifest
  /\ pc = "idle"
  /\ clean = FALSE
  /\ specific_device = None
  /\ project_found = FALSE
  /\ devices_to_process = <<>>
  /\ idx = 0
  /\ device_uuid = 0
  /\ success_count = 0
  /\ total_devices = 0
  /\ success = FALSE
  /\ exit_code = -1
  /\ produced = 0
  /\ last = Step("none", NoDevice, "none")
  /\ attempts = <<>>
  /\ completed = {}
  /\ manifest_writes = 0
  /\ top0 = top /\ subdirs0 = subdirs /\ sub0 = sub /\ manifest0 = manifest

(* ------------------------------ actions ------------------------------- *)
\* main(): parse the arguments, verify the project, construct the generator.
\* A run starts when no run is in progress; what earlier runs wrote is old now.
Main ==
  /\ pc \in {"idle", "done"}
  /\ top' = AgedDir(top)
  /\ sub' = [f \in Folders |-> AgedDir(sub[f])]
  /\ manifest' = [manifest EXCEPT !.generated_at = Aged(@)]
  /\ \E c \in BOOLEAN, d \in {None, "", KeyProMax, KeyPhone, KeyPad, UnknownDevice},
        found \in BOOLEAN :
       /\ clean' = c
       /\ specific_device' = d
       /\ project_found' = found
       /\ IF found
          THEN /\ pc' = "generate"
               /\ exit_code' = -1
          ELSE \* sys.exit(1)
               /\ pc' = "done"
               /\ exit_code' = 1
  /\ devices_to_process' = <<>>
  /\ idx' = 0
  /\ device_uuid' = 0
  /\ success_count' = 0
  /\ total_devices' = 0
  /\ success' = FALSE
  /\ produced' = 0
  /\ last' = Step("main", NoDevice, "none")
  /\ attempts' = <<>>
  /\ completed' = {}
  /\ manifest_writes' = 0
  /\ top0' = top' /\ subdirs0' = subdirs /\ sub0' = sub' /\ manifest0' = manifest'
  /\ UNCHANGED subdirs

\* a clean that removes nothing
CleanScreenshotsKeepsFiles(dir) == dir

\* clean_screenshots: unlink every top-level *.png
CleanScreenshots(dir) == [n \in FileNames |-> IF IsPng[n] THEN "none" ELSE dir[n]]

\* a selection that ignores the requested device
SelectDevicesIgnoresRequest(device) ==
  IF Truthy(device) /\ device \notin DOMAIN SCREENSHOT_DEVICES THEN <<>> ELSE DeviceKeys

\* generate_all_screenshots: the devices selected, <<>> when the name is unknown
SelectDevices(device) ==
  IF Truthy(device)
  THEN IF device \in DOMAIN SCREENSHOT_DEVICES THEN <<device>> ELSE <<>>
  ELSE DeviceKeys

\* main(): sys.exit(0 if success else 1)
ExitStatus(result) == IF result THEN 0 ELSE 1

\* generate_all_screenshots, up to the for loop; with an unknown device name
\* it returns False and main exits
Begin ==
  /\ pc = "generate"
  /\ top' = IF clean THEN CleanScreenshots(top) ELSE top
  /\ LET devs == SelectDevices(specific_device) IN
       IF devs = <<>>
       THEN /\ success' = FALSE
            /\ exit_code' = ExitStatus(FALSE)
            /\ pc' = "done"
            /\ UNCHANGED <<devices_to_process, idx, success_count, total_devices>>
       ELSE /\ devices_to_process' = devs
            /\ success_count' = 0
            /\ total_devices' = Len(devs)
            /\ idx' = 1
            /\ pc' = "boot"
            /\ UNCHANGED <<success, exit_code>>
  /\ last' = Step("begin", NoDevice, IF clean THEN "cleaned" ELSE "none")
  /\ UNCHANGED <<subdirs, sub, manifest, argVars, device_uuid,
                 produced, attempts, completed, manifest_writes, snapVars>>

\* the key and the profile the for loop is at
CurrentDevice == devices_to_process[idx]
CurrentConfig == SCREENSHOT_DEVICES[CurrentDevice]

\* a `break` where the loop has `continue`
ContinueLeavesLoop ==
  /\ idx' = idx + 1
  /\ pc' = "manifest"

\* `continue`, and the end of an iteration: the next device, or past the loop
Continue ==
  /\ idx' = idx + 1
  /\ pc' = IF idx < Len(devices_to_process) THEN "boot" ELSE "manifest"

\* boot_simulator, and the `if not device_uuid: continue` after it
Boot ==
  /\ pc = "boot"
  /\ attempts' = Append(attempts, CurrentDevice)
  /\ LET name == BootLookupName(CurrentDevice, CurrentConfig) IN
     \/ \* simctl list fails: return False
        /\ last' = [Step("boot", CurrentDevice, "failed") EXCEPT !.name = name]
        /\ device_uuid' = 0
        /\ Continue
     \/ \* a call raises (json.loads, a missing key, a missing tool)
        /\ last' = [Step("boot", CurrentDevice, "exception") EXCEPT !.name = name]
        /\ UNCHANGED device_uuid
        /\ Continue
     \/ \E devices \in SimctlLists :
          LET uuid == FindDevice(devices, name)
              entry == [Step("boot", CurrentDevice, "none") EXCEPT !.name = name, !.list = devices]
          IN IF uuid = 0
             THEN \* no available device of this name: return False
                  /\ last' = [entry EXCEPT !.res = "not_found"]
                  /\ device_uuid' = 0
                  /\ Continue
             ELSE \/ \* simctl boot fails, and not as already booted: return False
                     /\ last' = [Step("boot", CurrentDevice, "failed") EXCEPT !.name = name]
                     /\ device_uuid' = 0
                     /\ Continue
                  \/ \* booted, or already booted: return device_uuid
                     /\ last' = [entry EXCEPT !.res = "ok"]
                     /\ device_uuid' = uuid
                     /\ pc' = "configure"
                     /\ UNCHANGED idx
  /\ UNCHANGED <<fsVars, argVars, devices_to_process, success_count, total_devices,
                 success, exit_code, produced, completed, manifest_writes, snapVars>>

\* setup_simulator_environment: the commands' exit codes are ignored
Configure ==
  /\ pc = "configure"
  /\ \/ /\ last' = Step("configure", CurrentDevice, "ok")
        /\ pc' = "install"
        /\ UNCHANGED idx
     \/ /\ last' = Step("configure", CurrentDevice, "exception")
        /\ Continue
  /\ UNCHANGED <<fsVars, argVars, devices_to_process, device_uuid, success_count,
                 total_devices, success, exit_code, produced, attempts,
                 completed, manifest_writes, snapVars>>

\* install_app_to_simulator, and the `continue` after it
Install ==
  /\ pc = "install"
  /\ \/ /\ last' = Step("install", CurrentDevice, "ok")
        /\ pc' = "capture"
        /\ UNCHANGED idx
     \/ \* the build or the install fails, or a call raises
        \E res \in {"failed", "exception"} :
          /\ last' = Step("install", CurrentDevice, res)
          /\ Continue
  /\ UNCHANGED <<fsVars, argVars, devices_to_process, device_uuid, success_count,
                 total_devices, success, exit_code, produced, attempts,
                 completed, manifest_writes, snapVars>>

\* a test run whose non-zero exit code fails the device
RunScreenshotTestsResultStrict(returncode) == returncode = 0

\* run_screenshot_tests: the value returned for the test run's exit code
RunScreenshotTestsResult(returncode) == TRUE

\* run_screenshot_tests, and the `continue` after it.  The test run writes
\* image files of its choosing into the output directory.
Capture ==
  /\ pc = "capture"
  /\ \E S \in SubsetsUpTo(PngIds, MaxNewFiles - produced) :
       /\ top' = [n \in FileNames |-> IF n \in S THEN "new" ELSE top[n]]
       /\ produced' = produced + Cardinality(S)
  /\ \/ \E rc \in {0, 1} :
          /\ last' = Step("capture", CurrentDevice, IF rc = 0 THEN "ok" ELSE "nonzero")
          /\ IF RunScreenshotTestsResult(rc)
             THEN pc' = "organize" /\ UNCHANGED idx
             ELSE Continue
     \/ /\ last' = Step("capture", CurrentDevice, "exception")
        /\ Continue
  /\ UNCHANGED <<subdirs, sub, manifest, argVars, devices_to_process, device_uuid,
                 success_count, total_devices, success, exit_code, attempts,
                 completed, manifest_writes, snapVars>>

\* organize_screenshots: the top-level files the loop moves
Matched(dir, k) == {n \in PngsIn(dir) : Matches[k][n]}

\* a copy where organize_screenshots renames
TopAfterCopy(dir, moved) == dir

\* organize_screenshots: the directories after the files in `moved` were renamed
TopAfterMove(dir, moved) == [n \in FileNames |-> IF n \in moved THEN "none" ELSE dir[n]]
SubAfterMove(dirs, dir, folder, moved) ==
  [dirs EXCEPT ![folder] = [n \in FileNames |-> IF n \in moved THEN dir[n] ELSE dirs[folder][n]]]

\* organize_screenshots, success_count += 1, and the except clause
Organize ==
  /\ pc = "organize"
  /\ LET folder == DeviceDir[CurrentDevice]
         matched == Matched(top, CurrentDevice)
     IN \/ \* mkdir and every rename succeed
           /\ subdirs' = subdirs \cup {folder}
           /\ top' = TopAfterMove(top, matched)
           /\ sub' = SubAfterMove(sub, top, folder, matched)
           /\ success_count' = success_count + 1
           /\ completed' = completed \cup {CurrentDevice}
           /\ last' = Step("organize", CurrentDevice, "ok")
        \/ \* mkdir raises
           /\ UNCHANGED <<top, subdirs, sub, success_count, completed>>
           /\ last' = Step("organize", CurrentDevice, "exception")
        \/ \* a rename raises after some files were moved
           \E moved \in SUBSET matched :
             /\ moved # matched
             /\ subdirs' = subdirs \cup {folder}
             /\ top' = TopAfterMove(top, moved)
             /\ sub' = SubAfterMove(sub, top, folder, moved)
             /\ UNCHANGED <<success_count, completed>>
             /\ last' = Step("organize", CurrentDevice, "exception")
  /\ Continue
  /\ UNCHANGED <<manifest, argVars, devices_to_process, device_uuid, total_devices,
                 success, exit_code, produced, attempts, manifest_writes, snapVars>>

\* the names in S as a list, in directory order
SeqOf(S) == SelectSeq(FileOrder, LAMBDA n : n \in S)

\* a manifest that lists every file of a subdirectory, image or not
MakeManifestOfAllFiles(dirs, files, time) ==
  [generated_at |-> time,
   devices |-> [f \in dirs |->
                  LET screenshots == SeqOf(FilesIn(files[f]))
                  IN [screenshot_count |-> Len(screenshots), screenshots |-> screenshots]]]

\* create_screenshot_manifest: the manifest of the directory tree
MakeManifest(dirs, files, time) ==
  [generated_at |-> time,
   devices |-> [f \in dirs |->
                  LET screenshots == SeqOf(PngsIn(files[f]))
                  IN [screenshot_count |-> Len(screenshots), screenshots |-> screenshots]]]

\* a result that is a success when any device succeeded
AnySucceeded(count, total) == count > 0

\* generate_all_screenshots: return success_count == total_devices
AllSucceeded(count, total) == count = total

\* a run that writes the manifest only when a device completed
ManifestUnlessAllSkipped ==
  /\ pc = "manifest"
  /\ IF success_count > 0
     THEN /\ manifest' = MakeManifest(subdirs, sub, "new")
          /\ manifest_writes' = manifest_writes + 1
     ELSE UNCHANGED <<manifest, manifest_writes>>
  /\ success' = AllSucceeded(success_count, total_devices)
  /\ exit_code' = ExitStatus(success')
  /\ pc' = "done"
  /\ last' = Step("manifest", NoDevice, "ok")
  /\ UNCHANGED <<top, subdirs, sub, argVars, devices_to_process, idx, device_uuid,
                 success_count, total_devices, produced, attempts,
                 completed, snapVars>>

\* generate_all_screenshots after the loop: the manifest and the result,
\* and main's sys.exit
Manifest ==
  /\ pc = "manifest"
  /\ manifest' = MakeManifest(subdirs, sub, "new")
  /\ manifest_writes' = manifest_writes + 1
  /\ success' = AllSucceeded(success_count, total_devices)
  /\ exit_code' = ExitStatus(success')
  /\ pc' = "done"
  /\ last' = Step("manifest", NoDevice, "ok")
  /\ UNCHANGED <<top, subdirs, sub, argVars, devices_to_process, idx, device_uuid,
                 success_count, total_devices, produced, attempts,
                 completed, snapVars>>

Next ==
  \/ Main
  \/ Begin
  \/ Boot
  \/ Configure
  \/ Install
  \/ Capture
  \/ Organize
  \/ Manifest

Spec == Init /\ [][Next]_vars

\* the steps of a run after main's start
RunStep == Begin \/ Boot \/ Configure \/ Install \/ Capture \/ Organize \/ Manifest

\* the first start of the script
FirstRun == pc = "idle" /\ Main

\* one run of the script
NextOneRun == FirstRun \/ RunStep

\* One run of the script.  The process runs to its end once started: it is
\* sequential, and every external command is taken to return.
FairSpec == Init /\ [][NextOneRun]_vars /\ WF_vars(RunStep)

TypeOK ==
  /\ pc \in {"idle", "generate", "boot", "configure", "install", "capture",
             "organize", "manifest", "done"}
  /\ subdirs \subseteq Folders
  /\ success_count \in 0..Len(DeviceKeys)
  /\ exit_code \in {-1, 0, 1}

(* ------------------------------ claims -------------------------------- *)
ConfiguredDevices == DOMAIN SCREENSHOT_DEVICES

\* a run got past main's project check and the device-name validation
PastValidation == project_found /\ devices_to_process # <<>>

\* every device selected for the run reached "Completed"
AllSelectedCompleted == \A i \in 1..Len(devices_to_process) : devices_to_process[i] \in completed

\* the devices a request selects, in configured order
RequestedOrder ==
  IF specific_device \in ConfiguredDevices THEN <<specific_device>> ELSE DeviceKeys

\* C1: the exit status is 0 exactly when the project was located and every
\* device selected for the run completed all of its steps; it is 1 when the
\* project is not located or a selected device was skipped, even if other
\* devices succeeded.
C1_ExitStatus ==
  pc = "done" =>
    /\ exit_code \in {0, 1}
    /\ exit_code = 0 <=> (PastValidation /\ AllSelectedCompleted)
    /\ (~project_found \/ ~AllSelectedCompleted) => exit_code = 1
    /\ specific_device = None /\ project_found => devices_to_process = DeviceKeys
    /\ specific_device \in ConfiguredDevices /\ project_found =>
         devices_to_process = <<specific_device>>

\* a run over several devices ended with status 1 although a device completed
C1_Witness ==
  /\ pc = "done"
  /\ exit_code = 1
  /\ project_found
  /\ completed # {}
  /\ ~AllSelectedCompleted

\* C2: in a run with a valid selection a failure of one device never keeps the
\* later devices from being attempted: Boot is eventually attempted for every
\* selected device, in configured order, one device at a time.
C2_EveryDeviceAttempted ==
  (pc = "boot" /\ idx = 1 /\ specific_device \in ConfiguredDevices \cup {None})
    ~> (pc = "done" /\ attempts = RequestedOrder)

\* the first device was skipped and Boot was attempted for the second
C2_Witness ==
  /\ Len(attempts) = 2
  /\ attempts[1] \notin completed
  /\ last.step = "boot"
  /\ last.dev = DeviceKeys[2]
  /\ specific_device = None

\* C3: a requested device name that is not a key of the configuration table
\* aborts the run before any device step, with a failing exit status.
C3_UnknownDeviceAborts ==
  (specific_device # None /\ specific_device \notin ConfiguredDevices /\ pc # "idle") =>
    /\ pc \in {"generate", "done"}
    /\ attempts = <<>>
    /\ last.step \in {"main", "begin"}
    /\ pc = "done" => exit_code = 1

\* n was produced for device k: k's folder-safe name is the longest one in n
ProducedFor(k, n) ==
  /\ Matches[k][n]
  /\ \A j \in ConfiguredDevices : Matches[j][n] => Len(DeviceDir[j]) <= Len(DeviceDir[k])

\* the steps of the run so far were executed for the requested device only
OnlyRequestedProcessed ==
  /\ last.dev \in {NoDevice, specific_device}
  /\ \A i \in 1..Len(attempts) : attempts[i] = specific_device
  /\ Len(attempts) <= 1
  /\ completed \subseteq {specific_device}

\* the subdirectories of the devices not requested are as when the run started
OtherSubdirsUntouched ==
  \A k \in ConfiguredDevices \ {specific_device} :
    /\ sub[DeviceDir[k]] = sub0[DeviceDir[k]]
    /\ DeviceDir[k] \in subdirs <=> DeviceDir[k] \in subdirs0

\* C4 (as amended): selecting a single configured device processes only that
\* device and leaves every other device's subdirectory and the image files in
\* it unchanged.
C4_SingleDeviceFrame ==
  (specific_device \in ConfiguredDevices /\ pc # "idle") =>
    (OnlyRequestedProcessed /\ OtherSubdirsUntouched)

\* C4 (as stated): in addition every image file produced for another device,
\* wherever it lies, is the same after the run as before it.
C4_OtherDevicesFilesUntouched ==
  (specific_device \in ConfiguredDevices /\ pc = "done") =>
    /\ OnlyRequestedProcessed
    /\ OtherSubdirsUntouched
    /\ \A n \in PngIds :
         (\E k \in ConfiguredDevices \ {specific_device} : ProducedFor(k, n)) =>
           /\ top[n] = top0[n]
           /\ \A f \in Folders : sub[f][n] = sub0[f][n]

\* a single-device run completed next to another device's filled subdirectory
C4_Witness ==
  /\ pc = "done"
  /\ specific_device = KeyPhone
  /\ completed = {KeyPhone}
  /\ PngsIn(sub[DeviceDir[KeyProMax]]) # {}
  /\ PngsIn(sub[DeviceDir[KeyPhone]]) # {}

\* a clean run over all configured devices in which every device completed
CleanRunOverAll == clean /\ project_found /\ devices_to_process = DeviceKeys

\* C5 (as stated): after a clean run over all configured devices no image file
\* remains directly in the output directory.
C5_NoTopLevelImages ==
  (CleanRunOverAll /\ specific_device = None /\ pc = "done" /\ AllSelectedCompleted) =>
    PngsIn(top) = {}

\* C5 (as amended): in a clean run over all configured devices every image
\* file directly in the output directory was written by this run's test runs,
\* and when Organize completes for a device no top-level image file whose name
\* contains that device's folder-safe name remains.
C5_CleanThenOrganized ==
  /\ (CleanRunOverAll /\ pc # "generate") => \A n \in PngsIn(top) : top[n] = "new"
  /\ (last.step = "organize" /\ last.res = "ok") =>
       \A n \in PngsIn(top) : ~Matches[last.dev][n]

\* a clean run over all devices ended, all completed: old top-level images
\* are gone, a test run's image was filed, another was left at top level
C5_Witness ==
  /\ CleanRunOverAll
  /\ pc = "done"
  /\ AllSelectedCompleted
  /\ PngsIn(top0) # {}
  /\ \E k \in ConfiguredDevices, n \in PngIds : sub[DeviceDir[k]][n] = "new"

\* the names a manifest entry lists
Listed(entry) == {entry.screenshots[i] : i \in 1..Len(entry.screenshots)}

\* C6: the manifest a run writes has one entry per immediate subdirectory of
\* the output directory and no other, each entry lists exactly the image files
\* of its subdirectory, and its count is the number of names listed.
C6_ManifestReflectsTree ==
  (pc = "done" /\ manifest_writes > 0) =>
    /\ DOMAIN manifest.devices = subdirs
    /\ \A f \in subdirs :
         /\ Listed(manifest.devices[f]) = {n \in FileNames : sub[f][n] # "none" /\ IsPng[n]}
         /\ manifest.devices[f].screenshot_count = Len(manifest.devices[f].screenshots)
         /\ manifest.devices[f].screenshot_count = Cardinality(Listed(manifest.devices[f]))

\* a manifest was written over a device subdirectory holding an image and a
\* subdirectory holding a file that is no image
C6_Witness ==
  /\ pc = "done"
  /\ manifest_writes > 0
  /\ \E k \in ConfiguredDevices :
       /\ DeviceDir[k] \in subdirs
       /\ manifest.devices[DeviceDir[k]].screenshot_count > 0
  /\ \E f \in subdirs, n \in FileNames : sub[f][n] # "none" /\ ~IsPng[n]

\* C7: Boot looks up the profile's simulator identifier in the simulator list,
\* so a profile whose simulator is installed and available is not skipped as
\* not found.
C7_BootLooksUpSimulator ==
  (last.step = "boot" /\ last.res \in {"ok", "not_found"}) =>
    /\ last.name = SCREENSHOT_DEVICES[last.dev].simulator
    /\ (\E e \in last.list : e.name = SCREENSHOT_DEVICES[last.dev].simulator /\ e.isAvailable)
         => last.res = "ok"

\* the image files a run may have changed in subdirectory f: those whose name
\* a selected device with that subdirectory matches
MayChange(f, n) ==
  \E i \in 1..Len(devices_to_process) :
    /\ DeviceDir[devices_to_process[i]] = f
    /\ Matches[devices_to_process[i]][n]

\* C8: a run that gets past the device-name validation writes the manifest
\* exactly once, after the last device, also when every device was skipped; a
\* re-run without the clean flag replaces the manifest and leaves the image
\* files of subdirectories not selected, or not matched, unchanged.
C8_ManifestOncePerRun ==
  /\ manifest_writes <= 1
  /\ manifest_writes = 1 => (pc = "done" /\ attempts = devices_to_process)
  /\ (pc = "done" /\ PastValidation) =>
       /\ manifest_writes = 1
       /\ manifest.generated_at = "new"
       /\ last.step = "manifest"
  /\ (~clean /\ pc # "idle") =>
       /\ subdirs0 \subseteq subdirs
       /\ \A f \in Folders, n \in FileNames :
            sub[f][n] # sub0[f][n] => MayChange(f, n)

\* a re-run without the clean flag, every device skipped, replaced an old
\* manifest next to an old device subdirectory with images
C8_Witness ==
  /\ pc = "done"
  /\ ~clean
  /\ PastValidation
  /\ completed = {}
  /\ manifest0.generated_at = "old"
  /\ manifest.generated_at = "new"
  /\ \E k \in ConfiguredDevices : PngsIn(sub0[DeviceDir[k]]) # {}

\* C9: per device the steps run in the order Boot, Configure, Install,
\* Capture, Organize; Configure and Install only after Boot succeeded, Capture
\* and Organize only after Install succeeded; a non-zero exit of the capture
\* test run does not abort the device: Organize runs next, and when it
\* finishes the device counts as completed.
C9_StepOrder ==
  /\ pc = "configure" =>
       (last.step = "boot" /\ last.res = "ok" /\ last.dev = CurrentDevice /\ device_uuid # 0)
  /\ pc = "install" =>
       (last.step = "configure" /\ last.res = "ok" /\ last.dev = CurrentDevice /\ device_uuid # 0)
  /\ pc = "capture" =>
       (last.step = "install" /\ last.res = "ok" /\ last.dev = CurrentDevice /\ device_uuid # 0)
  /\ pc = "organize" =>
       (last.step = "capture" /\ last.res \in {"ok", "nonzero"} /\ last.dev = CurrentDevice)
  /\ (last.step = "capture" /\ last.res = "nonzero") => pc = "organize"
  /\ (last.step = "organize" /\ last.res = "ok") => last.dev \in completed
  /\ pc \in {"configure", "install", "capture", "organize"} =>
       (attempts[Len(attempts)] = CurrentDevice /\ CurrentDevice \notin completed)
  /\ success_count = Cardinality(completed)

\* the capture test run exited non-zero and Organize is next
C9_Witness ==
  /\ pc = "organize"
  /\ last.step = "capture"
  /\ last.res = "nonzero"

\* C10 (as stated): at the end of a run an image file lies at top level only
\* if its name contains no known device's folder-safe name, and Organize never
\* deletes a file.
C10_FiledOrUnmatched ==
  (pc = "done" /\ PastValidation) =>
    /\ \A n \in PngsIn(top) : ~\E k \in ConfiguredDevices : Matches[k][n]
    /\ \A f \in Folders, n \in FileNames : sub0[f][n] = "old" => sub[f][n] = "old"

\* what one Organize step may do, for device k with subdirectory f
OrganizeEffect(k, f) ==
  /\ subdirs \subseteq subdirs'
  /\ \A g \in Folders \ {f} : sub'[g] = sub[g]
  /\ \A n \in FileNames :
       \/ \* the file is moved, replacing a file of its name in f
          /\ top[n] # "none" /\ IsPng[n] /\ Matches[k][n]
          /\ top'[n] = "none"
          /\ sub'[f][n] = top[n]
          /\ f \in subdirs'
       \/ \* the file is left alone
          /\ top'[n] = top[n]
          /\ sub'[f][n] = sub[f][n]
  /\ last'.res = "ok" =>
       /\ f \in subdirs'
       /\ \A n \in FileNames : (top[n] # "none" /\ IsPng[n] /\ Matches[k][n]) => top'[n] = "none"

\* C10 (as amended): Organize for a device moves every top-level image file
\* whose name contains the device's folder-safe name, case-insensitively, into
\* the device's subdirectory, where it replaces a file of the same name; it
\* changes no other file, duplicates none and moves none out of a subdirectory.
C10_OrganizeMoves ==
  [][pc = "organize" => OrganizeEffect(CurrentDevice, DeviceDir[CurrentDevice])]_vars

\* Organize completed and filed a new image over an old one of the same name
C10_Witness ==
  /\ last.step = "organize"
  /\ last.res = "ok"
  /\ \E n \in PngIds :
       /\ sub[DeviceDir[last.dev]][n] = "new"
       /\ sub0[DeviceDir[last.dev]][n] = "old"
       /\ top[n] = "none"

====
